---- MODULE Spec2Model ----
(***************************************************************************)
(* Alert distribution and delivery engine of the alerting platform:        *)
(* target resolution, the per-(user, alert) preference state machine, the  *)
(* delivery records and the reminder pass (app/services/alert_service.py,  *)
(* app/services/notification_service.py, app/models/*.py).                 *)
(*                                                                         *)
(* Time is datetime.utcnow() in whole seconds since midnight of day 0.     *)
(* A column that is NULL holds Null (-1) when it is a number or a          *)
(* timestamp and NullText (the empty text) when it is a Text column.       *)
(* Text is a sequence of one-character strings, so that json.dumps,        *)
(* json.loads and LIKE are computed on the characters.                     *)
(* DeliveryType and DeliveryChannel have the same members; a channel is    *)
(* named by its value ("in_app", "email", "sms").                          *)
(***************************************************************************)
EXTENDS Integers, Sequences, FiniteSets, TLC

\* ------------------------------------------------------------------ bounds
\* Alerts that can be created in a run (alert ids are 1..MaxAlerts).
MaxAlerts == 1
\* Delivery records that can be created in a run.
MaxDeliveries == 3
\* Snooze requests served in a run.
MaxSnooze == 1
\* Preference rows that can be marked read in a run (a read row can be marked again).
MaxReads == 1
\* Users that can be deactivated in a run.
MaxDeactivated == 1
\* Delivery records that can be marked read in a run (a read one can be marked again).
MaxNotificationReads == 1

\* --------------------------------------------------------------- constants
SecondsPerHour == 3600
SecondsPerMinute == 60
SecondsPerDay == 24 * SecondsPerHour
\* time(23, 59, 59) as seconds into the day
EndOfDay == (23 * 3600) + (59 * 60) + 59

Null == -1
NullText == << >>
\* an Optional[List[int]] request field given as None
NoneList == << Null >>

\* The instants the clock takes in a run: 23:00:00 and 23:59:59 of day 0,
\* 00:00:00, 01:00:00 and 02:00:00 of day 1.
Instants == << 82800, 86399, 86400, 90000, 93600 >>

\* ---------------------------------------------------------------- directory
UserIds == {1, 2, 12}
TeamIds == {1, 11}
NoTeam == 0
\* users.team_id at start: user 1 in team 1, user 2 in team 11, user 12 in no team
InitialTeam(u) == CASE u = 1 -> 1 [] u = 2 -> 11 [] OTHER -> NoTeam

AlertIds == 1 .. MaxAlerts
Workers == {1, 2}

\* --------------------------------------------------------------------- text
DigitChar(d) == << "0", "1", "2", "3", "4", "5", "6", "7", "8", "9" >>[d + 1]

RECURSIVE str(_)
\* Python str(int) / the decimal form json.dumps writes for an int >= 0
str(n) == IF n < 10 THEN << DigitChar(n) >>
          ELSE str(n \div 10) \o << DigitChar(n % 10) >>

RECURSIVE JoinInts(_)
JoinInts(xs) == IF Len(xs) = 0 THEN << >>
                ELSE IF Len(xs) = 1 THEN str(xs[1])
                ELSE str(xs[1]) \o << ",", " " >> \o JoinInts(Tail(xs))

\* json.dumps of a list of ints: "[1, 11]"
json_dumps(xs) == << "[" >> \o JoinInts(xs) \o << "]" >>

DigitValue(c) == CHOOSE d \in 0 .. 9 : DigitChar(d) = c
IsDigit(c) == \E d \in 0 .. 9 : DigitChar(d) = c

RECURSIVE ParseItems(_, _, _, _)
\* scans text from position i; cur is the number being read (Null: none yet)
ParseItems(text, i, cur, acc) ==
    IF i > Len(text) THEN acc
    ELSE IF IsDigit(text[i])
         THEN ParseItems(text, i + 1,
                         (IF cur = Null THEN 0 ELSE cur * 10) + DigitValue(text[i]), acc)
    ELSE IF text[i] \in {",", "]"}
         THEN ParseItems(text, i + 1, Null,
                         IF cur = Null THEN acc ELSE Append(acc, cur))
    ELSE ParseItems(text, i + 1, cur, acc)

\* json.loads of the text json.dumps wrote: the list of ints
json_loads(text) == ParseItems(text, 1, Null, << >>)

Elems(xs) == { xs[i] : i \in 1 .. Len(xs) }

\* SQL  column LIKE '%pat%'  on a Text column (NULL never matches)
Like(text, pat) ==
    \E i \in 1 .. Len(text) :
        /\ i + Len(pat) - 1 <= Len(text)
        /\ SubSeq(text, i, i + Len(pat) - 1) = pat

\* --------------------------------------------------------------------- state
VARIABLES
    clk,          \* index into Instants of the current time
    users,        \* users table: id -> [team_id, is_active]
    alerts,       \* alerts table: sequence, alert id = index
    prefs,        \* user_alert_preferences: (user_id, alert_id) -> row
    deliveries,   \* notification_deliveries: sequence, delivery id = index
    req,          \* per alert, the target id lists last written by a request
    lastOp,       \* the operation that ran last and what it returned
    pass          \* per reminder-pass worker: its position and session state

vars == << clk, users, alerts, prefs, deliveries, req, lastOp, pass >>

now == Instants[clk]

\* retargeted: the operation deleted and re-created the alert's preference rows
NoOp == [op |-> "none", alert |-> 0, user |-> 0, ok |-> FALSE, retargeted |-> FALSE]
Op(name, a, u, ok) ==
    [op |-> name, alert |-> a, user |-> u, ok |-> ok, retargeted |-> FALSE]

IdlePass == [pc |-> "idle", todo |-> << >>, fresh |-> FALSE, dirty |-> << >>]

Init ==
    /\ clk = 1
    /\ users = [u \in UserIds |-> [team_id |-> InitialTeam(u), is_active |-> TRUE]]
    /\ alerts = << >>
    /\ prefs = << >>
    /\ deliveries = << >>
    /\ req = << >>
    /\ lastOp = NoOp
    /\ pass = [w \in Workers |-> IdlePass]

\* ------------------------------------------------------------------- clock
\* Time passes between requests.
AdvanceClock ==
    /\ clk < Len(Instants)
    /\ clk' = clk + 1
    /\ lastOp' = Op("clock", 0, 0, TRUE)
    /\ UNCHANGED << users, alerts, prefs, deliveries, req, pass >>

\* ---------------------------------------------------------- target resolution
\* SQL  User.is_active == True AND User.team_id IN (team_ids),  the team ids
\* read back from the stored text
\* (mutant) the team is matched with LIKE on the stored text, as a listing would
team_filter_like(user, text) ==
    /\ user.is_active
    /\ user.team_id # NoTeam
    /\ Like(text, str(user.team_id))

team_filter(user, text) ==
    /\ user.is_active
    /\ user.team_id # NoTeam
    /\ user.team_id \in Elems(IF text # NullText THEN json_loads(text) ELSE << >>)

\* (mutant) the user filter without  User.is_active == True
user_filter_ignoring_active(user, id, text) ==
    id \in Elems(IF text # NullText THEN json_loads(text) ELSE << >>)

\* SQL  User.is_active == True AND User.id IN (user_ids)
user_filter(user, id, text) ==
    /\ user.is_active
    /\ id \in Elems(IF text # NullText THEN json_loads(text) ELSE << >>)

\* (mutant) the is_active filter is left out of the three queries
get_target_users_ignoring_active(alert, usrs) ==
    LET on == [u \in DOMAIN usrs |-> [usrs[u] EXCEPT !.is_active = TRUE]]
    IN  CASE alert.visibility_type = "organization" -> DOMAIN usrs
          [] alert.visibility_type = "team" ->
                 { u \in DOMAIN usrs : team_filter(on[u], alert.target_team_ids) }
          [] alert.visibility_type = "user" ->
                 { u \in DOMAIN usrs : user_filter(on[u], u, alert.target_user_ids) }
          [] OTHER -> {}

\* (mutant) an organization alert is narrowed to its target lists when it has any
get_target_users_narrowed(alert, usrs) ==
    CASE alert.visibility_type = "organization" ->
             IF alert.target_user_ids # NullText
             THEN { u \in DOMAIN usrs : user_filter(usrs[u], u, alert.target_user_ids) }
             ELSE IF alert.target_team_ids # NullText
             THEN { u \in DOMAIN usrs : team_filter(usrs[u], alert.target_team_ids) }
             ELSE { u \in DOMAIN usrs : usrs[u].is_active }
      [] alert.visibility_type = "team" ->
             { u \in DOMAIN usrs : team_filter(usrs[u], alert.target_team_ids) }
      [] alert.visibility_type = "user" ->
             { u \in DOMAIN usrs : user_filter(usrs[u], u, alert.target_user_ids) }
      [] OTHER -> {}

\* The ids of the users _get_target_users_for_alert returns.
get_target_users_for_alert(alert, usrs) ==
    CASE alert.visibility_type = "organization" ->
             { u \in DOMAIN usrs : usrs[u].is_active }
      [] alert.visibility_type = "team" ->
             { u \in DOMAIN usrs : team_filter(usrs[u], alert.target_team_ids) }
      [] alert.visibility_type = "user" ->
             { u \in DOMAIN usrs : user_filter(usrs[u], u, alert.target_user_ids) }
      [] OTHER -> {}

\* ------------------------------------------------------------- preferences
\* A new UserAlertPreference row: the column defaults.
NewPref ==
    [is_read |-> FALSE, read_at |-> Null,
     is_snoozed |-> FALSE, snoozed_at |-> Null, snoozed_until |-> Null,
     snooze_count |-> 0,
     last_reminded_at |-> Null, reminder_count |-> 0]

PrefsOfAlert(p, a) == { k \in DOMAIN p : k[2] = a }

\* _create_user_preferences_for_alert: a row for every target user that has none
create_user_preferences_for_alert(p, a, targets) ==
    [k \in DOMAIN p \cup { << u, a >> : u \in targets } |->
        IF k \in DOMAIN p THEN p[k] ELSE NewPref]

\* _update_user_preferences_for_alert: delete the alert's rows, then create
update_user_preferences_for_alert(p, a, targets) ==
    LET kept == [k \in DOMAIN p \ PrefsOfAlert(p, a) |-> p[k]]
    IN  create_user_preferences_for_alert(kept, a, targets)

\* ------------------------------------------------------------------ requests
Truthy(list) == list # NoneList /\ Len(list) > 0

\* _validate_alert_targeting: TRUE when it raises ValueError
validate_alert_targeting_raises(data) ==
    CASE data.visibility_type = "team" ->
             \/ ~Truthy(data.target_team_ids)
             \/ \E t \in Elems(data.target_team_ids) : t \notin TeamIds
      [] data.visibility_type = "user" ->
             \/ ~Truthy(data.target_user_ids)
             \/ \E u \in Elems(data.target_user_ids) : u \notin UserIds
      [] OTHER -> FALSE

\* An AlertCreate body (title, message and severity play no part).
AlertCreate(v, tt, tu, d, h) ==
    [visibility_type |-> v, target_team_ids |-> tt, target_user_ids |-> tu,
     delivery_type |-> d, reminder_interval_hours |-> h,
     reminders_enabled |-> TRUE, start_time |-> Null, expiry_time |-> Null]

\* The bodies posted in a run of the whole engine.
AlertCreateInputs ==
    { AlertCreate("organization", NoneList, NoneList, "in_app", 1),
      AlertCreate("team", << 11 >>, NoneList, "email", 2),
      AlertCreate("team", NoneList, NoneList, "in_app", 1) }

\* The bodies posted in a run of targeting alone.
TargetingCreateInputs ==
    AlertCreateInputs \cup
    { AlertCreate("team", << 1 >>, NoneList, "in_app", 2),
      AlertCreate("team", << 1, 11 >>, NoneList, "in_app", 2),
      AlertCreate("user", NoneList, << 1, 12 >>, "in_app", 1),
      AlertCreate("user", NoneList, << 3 >>, "in_app", 1),
      AlertCreate("organization", << 11 >>, NoneList, "in_app", 1),
      AlertCreate("team", << 21 >>, NoneList, "in_app", 1) }

\* The alerts row create_alert stores for a valid body at time t.
new_alert_row(data, t) ==
    [visibility_type |-> data.visibility_type,
     target_team_ids |-> IF Truthy(data.target_team_ids)
                         THEN json_dumps(data.target_team_ids) ELSE NullText,
     target_user_ids |-> IF Truthy(data.target_user_ids)
                         THEN json_dumps(data.target_user_ids) ELSE NullText,
     delivery_type |-> data.delivery_type,
     status |-> "active",
     start_time |-> IF data.start_time = Null THEN t ELSE data.start_time,
     expiry_time |-> data.expiry_time,
     reminder_interval_hours |-> data.reminder_interval_hours,
     reminders_enabled |-> data.reminders_enabled]

create_alert(data) ==
    /\ Len(alerts) < MaxAlerts
    /\ IF validate_alert_targeting_raises(data)
       THEN /\ lastOp' = Op("create_alert", 0, 0, FALSE)
            /\ UNCHANGED << alerts, prefs, req >>
       ELSE LET a == Len(alerts) + 1
                row == new_alert_row(data, now)
            IN  /\ alerts' = Append(alerts, row)
                /\ prefs' = create_user_preferences_for_alert(
                                prefs, a, get_target_users_for_alert(row, users))
                /\ req' = Append(req, [teams |-> data.target_team_ids,
                                       users |-> data.target_user_ids])
                /\ lastOp' = Op("create_alert", a, 0, TRUE)
    /\ UNCHANGED << clk, users, deliveries, pass >>

\* An AlertUpdate body: fields is the set of fields the request sets
\* (model_dump(exclude_unset=True)); a field it does not set reads as None.
AlertUpdate(fs, v, tt, tu) ==
    [fields |-> fs, visibility_type |-> v,
     target_team_ids |-> tt, target_user_ids |-> tu]

AlertUpdateInputs ==
    { AlertUpdate({"visibility_type", "target_team_ids"}, "team", << 1 >>, NoneList),
      AlertUpdate({"visibility_type"}, "team", NoneList, NoneList) }

TargetingUpdateInputs ==
    AlertUpdateInputs \cup
    { AlertUpdate({"visibility_type", "target_team_ids"}, "team", << 11 >>, NoneList),
      AlertUpdate({"visibility_type"}, "organization", NoneList, NoneList),
      AlertUpdate({"target_user_ids"}, "none", NoneList, << 1, 12 >>),
      AlertUpdate({"visibility_type", "target_user_ids"}, "user", NoneList, << 2, 12 >>) }

TargetingFields == {"visibility_type", "target_team_ids", "target_user_ids"}

\* update_alert lines 64-72: the row after the setattr loop
updated_alert_row(row, data) ==
    [row EXCEPT
       !.visibility_type = IF "visibility_type" \in data.fields
                           THEN data.visibility_type ELSE @,
       !.target_team_ids = IF "target_team_ids" \in data.fields
                           THEN (IF data.target_team_ids # NoneList
                                 THEN json_dumps(data.target_team_ids) ELSE NullText)
                           ELSE @,
       !.target_user_ids = IF "target_user_ids" \in data.fields
                           THEN (IF data.target_user_ids # NoneList
                                 THEN json_dumps(data.target_user_ids) ELSE NullText)
                           ELSE @,
       !.status = IF "status" \in data.fields THEN data.status ELSE @]

update_alert(a, data) ==
    /\ IF a > Len(alerts)
       THEN /\ lastOp' = Op("update_alert", a, 0, FALSE)
            /\ UNCHANGED << alerts, prefs, req >>
       ELSE IF data.visibility_type # "none" /\ validate_alert_targeting_raises(data)
       THEN /\ lastOp' = Op("update_alert", a, 0, FALSE)
            /\ UNCHANGED << alerts, prefs, req >>
       ELSE LET row == updated_alert_row(alerts[a], data)
            IN  /\ alerts' = [alerts EXCEPT ![a] = row]
                /\ prefs' = IF data.fields \cap TargetingFields # {}
                            THEN update_user_preferences_for_alert(
                                     prefs, a, get_target_users_for_alert(row, users))
                            ELSE prefs
                /\ req' = [req EXCEPT
                             ![a].teams = IF "target_team_ids" \in data.fields
                                          THEN data.target_team_ids ELSE @,
                             ![a].users = IF "target_user_ids" \in data.fields
                                          THEN data.target_user_ids ELSE @]
                /\ lastOp' = [Op("update_alert", a, 0, TRUE) EXCEPT
                                 !.retargeted = (data.fields \cap TargetingFields # {})]
    /\ UNCHANGED << clk, users, deliveries, pass >>

\* AlertService.archive_alert
archive_alert(a) ==
    /\ IF a \in 1 .. Len(alerts)
       THEN /\ alerts' = [alerts EXCEPT ![a].status = "archived"]
            /\ lastOp' = Op("archive_alert", a, 0, TRUE)
       ELSE /\ alerts' = alerts
            /\ lastOp' = Op("archive_alert", a, 0, FALSE)
    /\ UNCHANGED << clk, users, prefs, deliveries, req, pass >>

\* Alert.is_active read at time t
is_active(alert, t) ==
    IF alert.status # "active" THEN FALSE
    ELSE IF t < alert.start_time THEN FALSE
    ELSE IF alert.expiry_time # Null /\ t > alert.expiry_time THEN FALSE
    ELSE TRUE

\* TeamService.add_member_to_team
add_member_to_team(u, t) ==
    /\ IF u \in DOMAIN users /\ t \in TeamIds
       THEN /\ users' = [users EXCEPT ![u].team_id = t]
            /\ lastOp' = Op("add_member_to_team", t, u, TRUE)
       ELSE /\ users' = users
            /\ lastOp' = Op("add_member_to_team", t, u, FALSE)
    /\ UNCHANGED << clk, alerts, prefs, deliveries, req, pass >>

\* UserService.deactivate_user
deactivate_user(u) ==
    /\ users[u].is_active
    /\ Cardinality({ x \in UserIds : ~users[x].is_active }) < MaxDeactivated
    /\ users' = [users EXCEPT ![u].is_active = FALSE]
    /\ lastOp' = Op("deactivate_user", 0, u, TRUE)
    /\ UNCHANGED << clk, alerts, prefs, deliveries, req, pass >>

\* ------------------------------------------------- preference state machine
\* UserAlertPreference.mark_as_read at time t
mark_as_read(pref, t) == [pref EXCEPT !.is_read = TRUE, !.read_at = t]

\* datetime.combine(now.date(), time(23, 59, 59))
end_of_day(t) == ((t \div SecondsPerDay) * SecondsPerDay) + EndOfDay

\* UserAlertPreference.snooze_for_day at time t
snooze_for_day(pref, t) ==
    [pref EXCEPT !.is_snoozed = TRUE, !.snoozed_at = t,
                 !.snoozed_until = end_of_day(t), !.snooze_count = @ + 1]

\* UserAlertPreference.should_receive_reminder read at time t: the value the
\* property returns, and the row as the read leaves it.
should_receive_reminder(pref, alert, t) ==
    LET blocked == /\ pref.is_snoozed
                   /\ pref.snoozed_until # Null
                   /\ t < pref.snoozed_until
        p1 == IF pref.is_snoozed /\ ~blocked
              THEN [pref EXCEPT !.is_snoozed = FALSE, !.snoozed_until = Null]
              ELSE pref
    IN  IF blocked THEN [result |-> FALSE, pref |-> pref]
        ELSE IF p1.is_read THEN [result |-> FALSE, pref |-> p1]
        ELSE IF /\ p1.last_reminded_at # Null
                /\ (t - p1.last_reminded_at)
                     < (alert.reminder_interval_hours * SecondsPerHour)
             THEN [result |-> FALSE, pref |-> p1]
        ELSE [result |-> TRUE, pref |-> p1]

\* _get_or_create_user_preference: the table after the call (a row is added
\* when there was none and both the alert and the user exist)
get_or_create_user_preference(p, a, u) ==
    IF << u, a >> \in DOMAIN p THEN p
    ELSE IF a \in 1 .. Len(alerts) /\ u \in DOMAIN users
         THEN [k \in DOMAIN p \cup { << u, a >> } |->
                  IF k \in DOMAIN p THEN p[k] ELSE NewPref]
    ELSE p

RECURSIVE SumOver(_, _)
SumOver(f, S) == IF S = {} THEN 0
                 ELSE LET k == CHOOSE x \in S : TRUE
                      IN  f[k] + SumOver(f, S \ {k})

SnoozesServed(p) == SumOver([k \in DOMAIN p |-> p[k].snooze_count], DOMAIN p)

mark_alert_as_read(a, u) ==
    /\ \/ << u, a >> \in DOMAIN prefs /\ prefs[<< u, a >>].is_read
       \/ Cardinality({ k \in DOMAIN prefs : prefs[k].is_read }) < MaxReads
    /\ LET p == get_or_create_user_preference(prefs, a, u)
       IN  IF << u, a >> \in DOMAIN p
           THEN /\ prefs' = [p EXCEPT ![<< u, a >>] = mark_as_read(@, now)]
                /\ lastOp' = Op("mark_alert_as_read", a, u, TRUE)
           ELSE /\ prefs' = prefs
                /\ lastOp' = Op("mark_alert_as_read", a, u, FALSE)
    /\ UNCHANGED << clk, users, alerts, deliveries, req, pass >>

snooze_alert_for_user(a, u) ==
    /\ SnoozesServed(prefs) < MaxSnooze
    /\ LET p == get_or_create_user_preference(prefs, a, u)
       IN  IF << u, a >> \in DOMAIN p
           THEN /\ prefs' = [p EXCEPT ![<< u, a >>] = snooze_for_day(@, now)]
                /\ lastOp' = Op("snooze_alert_for_user", a, u, TRUE)
           ELSE /\ prefs' = prefs
                /\ lastOp' = Op("snooze_alert_for_user", a, u, FALSE)
    /\ UNCHANGED << clk, users, alerts, deliveries, req, pass >>

\* --------------------------- mark-read and snooze, one statement at a time
\* mark_alert_as_read / snooze_alert_for_user as a request runs them in its own
\* session: the SELECT of _get_or_create_user_preference, then, when it found
\* no row, the INSERT and its commit.  Another request can commit in between;
\* the INSERT of a (user_id, alert_id) that is then present violates
\* _user_alert_preference_uc and the commit raises IntegrityError, which
\* nothing catches.
preference_method(op, pref, t) ==
    IF op = "mark_alert_as_read" THEN mark_as_read(pref, t) ELSE snooze_for_day(pref, t)

\* lines 323-335 (and, when the row exists, the method and the commit)
PreferenceSelect(w, op, a, u) ==
    /\ pass[w].pc = "idle"
    /\ op = "snooze_alert_for_user" => SnoozesServed(prefs) < MaxSnooze
    /\ IF << u, a >> \in DOMAIN prefs
       THEN /\ prefs' = [prefs EXCEPT ![<< u, a >>] = preference_method(op, @, now)]
            /\ lastOp' = Op(op, a, u, TRUE)
            /\ pass' = pass
       ELSE IF a \in 1 .. Len(alerts) /\ u \in DOMAIN users
       THEN /\ pass' = [pass EXCEPT ![w] =
                          [pc |-> "insert",
                           todo |-> << [key |-> << u, a >>, op |-> op] >>,
                           fresh |-> FALSE, dirty |-> << >>]]
            /\ lastOp' = Op("get_or_create_user_preference", a, u, TRUE)
            /\ prefs' = prefs
       ELSE /\ lastOp' = Op(op, a, u, FALSE)
            /\ UNCHANGED << prefs, pass >>
    /\ UNCHANGED << clk, users, alerts, deliveries, req >>

\* lines 336-341, then the method and the commit of the caller
PreferenceInsert(w) ==
    /\ pass[w].pc = "insert"
    /\ LET k == pass[w].todo[1].key
           op == pass[w].todo[1].op
       IN  IF k \in DOMAIN prefs
           THEN /\ prefs' = prefs
                /\ lastOp' = Op("IntegrityError", k[2], k[1], FALSE)
           ELSE /\ prefs' = [x \in DOMAIN prefs \cup {k} |->
                               IF x = k THEN preference_method(op, NewPref, now)
                               ELSE prefs[x]]
                /\ lastOp' = Op(op, k[2], k[1], TRUE)
    /\ pass' = [pass EXCEPT ![w] = IdlePass]
    /\ UNCHANGED << clk, users, alerts, deliveries, req >>

\* ---------------------------------------------------------------- deliveries
DefaultMaxRetries == 3

\* _get_delivery_address: the user's email address (named by the user id) for
\* the email channel, None otherwise
get_delivery_address(u, channel) == IF channel = "email" THEN u ELSE Null

\* schedule_notification: the Pending record it inserts at time t.  status_log
\* is no column: it lists the values assigned to status, in order.
schedule_notification(a, u, channel, is_reminder, reminder_sequence, t) ==
    [alert_id |-> a, user_id |-> u, channel |-> channel, status |-> "pending",
     delivery_address |-> get_delivery_address(u, channel),
     scheduled_at |-> t, sent_at |-> Null, delivered_at |-> Null, read_at |-> Null,
     retry_count |-> 0, max_retries |-> DefaultMaxRetries, next_retry_at |-> Null,
     error_message |-> "",
     is_reminder |-> is_reminder, reminder_sequence |-> reminder_sequence,
     status_log |-> << "pending" >>]

\* The channels' send_notification at time t: the value returned and the record
\* as the channel leaves it.
channel_send(d, t) ==
    CASE d.channel = "in_app" ->
             [ok |-> TRUE,
              d |-> [d EXCEPT !.status = "delivered", !.sent_at = t, !.delivered_at = t,
                              !.status_log = @ \o << "sent", "delivered" >>]]
      [] d.channel = "email" ->
             [ok |-> FALSE,
              d |-> [d EXCEPT !.error_message = "Email delivery not implemented yet"]]
      [] OTHER ->
             [ok |-> FALSE,
              d |-> [d EXCEPT !.error_message = "SMS delivery not implemented yet"]]

\* _send_notification at time t
send_notification(d, t) ==
    IF d.alert_id \notin 1 .. Len(alerts) \/ d.user_id \notin DOMAIN users
    THEN [ok |-> FALSE,
          d |-> [d EXCEPT !.status = "failed",
                          !.status_log = Append(@, "failed"),
                          !.error_message = "Alert or user not found"]]
    ELSE IF d.channel \notin {"in_app", "email", "sms"}
    THEN [ok |-> FALSE,
          d |-> [d EXCEPT !.status = "failed", !.status_log = Append(@, "failed"),
                          !.error_message = "Unsupported channel"]]
    ELSE LET r == channel_send(d, t)
         IN  IF r.ok THEN r
             ELSE [ok |-> FALSE,
                   d |-> [r.d EXCEPT !.status = "failed",
                                     !.status_log = Append(@, "failed")]]

\* send_notification_immediately: schedule_notification(alert, user, channel,
\* is_reminder), which leaves reminder_sequence at its default None, then send
send_notification_immediately(a, u, channel, is_reminder, t) ==
    send_notification(schedule_notification(a, u, channel, is_reminder, Null, t), t)

\* retry_failed_notifications: timedelta(minutes=5 * delivery.retry_count)
RetryBackoffMinutes == 5

\* retry_failed_notifications: the filter on delivery records at time t
retry_selects(d, max_retries, t) ==
    /\ d.status = "failed"
    /\ d.retry_count < max_retries
    /\ (d.next_retry_at = Null \/ d.next_retry_at <= t)

\* retry_failed_notifications lines 272-275 for one selected record
retry_delivery(d, t) ==
    LET d1 == [d EXCEPT !.retry_count = @ + 1,
                        !.next_retry_at =
                            t + (RetryBackoffMinutes * (d.retry_count + 1)
                                   * SecondsPerMinute)]
    IN  send_notification(d1, t).d

\* NotificationService.retry_failed_notifications(max_retries)
retry_failed_notifications(max_retries) ==
    /\ deliveries' = [i \in 1 .. Len(deliveries) |->
                        IF retry_selects(deliveries[i], max_retries, now)
                        THEN retry_delivery(deliveries[i], now)
                        ELSE deliveries[i]]
    /\ lastOp' = Op("retry_failed_notifications", 0, 0, TRUE)
    /\ UNCHANGED << clk, users, alerts, prefs, req, pass >>

\* (mutant) the record is looked up by id alone
owned_delivery_by_id(ds, notification_id, user_id) ==
    notification_id \in 1 .. Len(ds)

\* mark_notification_as_read lines 237-242: the record with that id and user
owned_delivery(ds, notification_id, user_id) ==
    /\ notification_id \in 1 .. Len(ds)
    /\ ds[notification_id].user_id = user_id

\* NotificationService.mark_notification_as_read
mark_notification_as_read(notification_id, user_id) ==
    /\ owned_delivery(deliveries, notification_id, user_id)
         => \/ deliveries[notification_id].read_at # Null
            \/ Cardinality({ i \in 1 .. Len(deliveries) :
                               deliveries[i].read_at # Null }) < MaxNotificationReads
    /\ IF owned_delivery(deliveries, notification_id, user_id)
       THEN /\ deliveries' =
                  [deliveries EXCEPT
                     ![notification_id].read_at = now,
                     ![notification_id].status =
                         IF @ = "delivered" THEN "read" ELSE @,
                     ![notification_id].status_log =
                         IF deliveries[notification_id].status = "delivered"
                         THEN Append(@, "read") ELSE @]
            /\ lastOp' = Op("mark_notification_as_read", notification_id, user_id, TRUE)
       ELSE /\ deliveries' = deliveries
            /\ lastOp' = Op("mark_notification_as_read", notification_id, user_id, FALSE)
    /\ UNCHANGED << clk, users, alerts, prefs, req, pass >>

\* ------------------------------------------------------------ reminder pass
\* get_alerts_requiring_reminders: the filter on alerts at time t
alert_requires_reminders(alert, t) ==
    /\ alert.status = "active"
    /\ alert.reminders_enabled
    /\ alert.start_time <= t
    /\ (alert.expiry_time = Null \/ alert.expiry_time > t)

\* (mutant) the filter without  is_read == False
pref_needs_reminder_ignoring_read(pref, alert, t) ==
    /\ \/ ~pref.is_snoozed
       \/ (pref.snoozed_until # Null /\ pref.snoozed_until < t)
    /\ \/ pref.last_reminded_at = Null
       \/ pref.last_reminded_at < t - (alert.reminder_interval_hours * SecondsPerHour)

\* (mutant) the filter without the snooze clause
pref_needs_reminder_ignoring_snooze(pref, alert, t) ==
    /\ ~pref.is_read
    /\ \/ pref.last_reminded_at = Null
       \/ pref.last_reminded_at < t - (alert.reminder_interval_hours * SecondsPerHour)

\* get_alerts_requiring_reminders: the filter on an alert's preference rows
pref_needs_reminder(pref, alert, t) ==
    /\ ~pref.is_read
    /\ \/ ~pref.is_snoozed
       \/ (pref.snoozed_until # Null /\ pref.snoozed_until < t)
    /\ \/ pref.last_reminded_at = Null
       \/ pref.last_reminded_at < t - (alert.reminder_interval_hours * SecondsPerHour)

RECURSIVE SortedSeq(_)
\* the elements of a set of pairs, by alert id and then user id
SortedSeq(S) ==
    IF S = {} THEN << >>
    ELSE LET m == CHOOSE x \in S :
                    \A y \in S : x[2] < y[2] \/ (x[2] = y[2] /\ x[1] <= y[1])
         IN  << m >> \o SortedSeq(S \ {m})

\* get_alerts_requiring_reminders: the (user, alert) rows of reminder_data,
\* in the order process_reminders walks them
get_alerts_requiring_reminders(als, p, t) ==
    SortedSeq({ k \in DOMAIN p :
                  /\ k[2] \in 1 .. Len(als)
                  /\ alert_requires_reminders(als[k[2]], t)
                  /\ pref_needs_reminder(p[k], als[k[2]], t) })

\* (mutant) the row is updated whatever the send returned
remind_update_always(pref, reminder_count, success, t) ==
    [pref EXCEPT !.last_reminded_at = t, !.reminder_count = reminder_count]

\* process_reminders lines 164-167: the row after a send that returned success
remind_update(pref, reminder_count, success, t) ==
    IF success
    THEN [pref EXCEPT !.last_reminded_at = t, !.reminder_count = reminder_count]
    ELSE pref

RECURSIVE run_reminders(_, _, _, _)
\* process_reminders lines 149-170 over the rows todo: the tables after the loop
run_reminders(todo, p, ds, t) ==
    IF Len(todo) = 0 THEN [prefs |-> p, deliveries |-> ds]
    ELSE LET k == Head(todo)
             reminder_count == p[k].reminder_count + 1
             r == send_notification_immediately(
                      k[2], k[1], alerts[k[2]].delivery_type, TRUE, t)
         IN  run_reminders(Tail(todo),
                           [p EXCEPT ![k] = remind_update(@, reminder_count, r.ok, t)],
                           Append(ds, r.d), t)

\* NotificationService.process_reminders, run to completion
process_reminders ==
    LET todo == get_alerts_requiring_reminders(alerts, prefs, now)
        out == run_reminders(todo, prefs, deliveries, now)
    IN  /\ Len(deliveries) + Len(todo) <= MaxDeliveries
        /\ prefs' = out.prefs
        /\ deliveries' = out.deliveries
        /\ lastOp' = Op("process_reminders", 0, 0, TRUE)
        /\ UNCHANGED << clk, users, alerts, req, pass >>

\* ----------------------------------------- reminder pass, one step at a time
\* A pass as a worker runs it in its own session: the query, then one row of
\* reminder_data per step, then the final commit.  The session keeps what it
\* changed since its last commit in dirty; a commit writes dirty to the
\* tables and expires every loaded row, so a row read after a commit is read
\* from the table again (fresh).
RECURSIVE flush(_, _, _)
\* db.commit(): the tables with the session's pending writes applied
flush(p, ds, dirty) ==
    IF Len(dirty) = 0 THEN [prefs |-> p, deliveries |-> ds]
    ELSE LET w == Head(dirty)
         IN  IF w.kind = "delivery"
             THEN flush(p, [ds EXCEPT ![w.id] = w.row], Tail(dirty))
             ELSE flush(IF w.key \in DOMAIN p
                        THEN [p EXCEPT ![w.key].last_reminded_at = w.last,
                                       ![w.key].reminder_count = w.count]
                        ELSE p,
                        ds, Tail(dirty))

\* process_reminders line 141: the rows of reminder_data as the session loads them
PassQuery(w) ==
    /\ pass[w].pc = "idle"
    /\ LET rows == get_alerts_requiring_reminders(alerts, prefs, now)
       IN  pass' = [pass EXCEPT ![w] =
                      [pc |-> "loop",
                       todo |-> [i \in 1 .. Len(rows) |->
                                   [key |-> rows[i],
                                    count |-> prefs[rows[i]].reminder_count]],
                       fresh |-> FALSE,
                       dirty |-> << >>]]
    /\ lastOp' = Op("get_alerts_requiring_reminders", 0, 0, TRUE)
    /\ UNCHANGED << clk, users, alerts, prefs, deliveries, req >>

\* process_reminders lines 153-170 for one row: the commit in
\* schedule_notification, the send, the update of the loaded row
PassRemind(w) ==
    /\ pass[w].pc = "loop"
    /\ Len(pass[w].todo) > 0
    /\ Len(deliveries) < MaxDeliveries
    /\ LET e == Head(pass[w].todo)
           k == e.key
           reminder_count ==
               (IF pass[w].fresh /\ k \in DOMAIN prefs
                THEN prefs[k].reminder_count ELSE e.count) + 1
           db == flush(prefs, deliveries, pass[w].dirty)
           id == Len(db.deliveries) + 1
           r == send_notification_immediately(
                    k[2], k[1], alerts[k[2]].delivery_type, TRUE, now)
           d0 == [r.d EXCEPT !.status = "pending", !.sent_at = Null,
                             !.delivered_at = Null, !.error_message = "",
                             !.status_log = << "pending" >>]
       IN  /\ prefs' = db.prefs
           /\ deliveries' = Append(db.deliveries, d0)
           /\ pass' = [pass EXCEPT ![w] =
                         [pc |-> "loop",
                          todo |-> Tail(pass[w].todo),
                          fresh |-> TRUE,
                          dirty |-> << [kind |-> "delivery", id |-> id, row |-> r.d] >>
                                    \o (IF r.ok
                                        THEN << [kind |-> "pref", key |-> k,
                                                 last |-> now,
                                                 count |-> reminder_count] >>
                                        ELSE << >>)]]
    /\ lastOp' = Op("send_notification_immediately", pass[w].todo[1].key[2],
                    pass[w].todo[1].key[1], TRUE)
    /\ UNCHANGED << clk, users, alerts, req >>

\* process_reminders line 172: the final commit
PassFinish(w) ==
    /\ pass[w].pc = "loop"
    /\ Len(pass[w].todo) = 0
    /\ LET db == flush(prefs, deliveries, pass[w].dirty)
       IN  /\ prefs' = db.prefs
           /\ deliveries' = db.deliveries
    /\ pass' = [pass EXCEPT ![w] = IdlePass]
    /\ lastOp' = Op("process_reminders", 0, 0, TRUE)
    /\ UNCHANGED << clk, users, alerts, req >>

\* ------------------------------------------------------------ specifications
\* The engine: requests, the clock and reminder passes that run to completion.
Next ==
    \/ AdvanceClock
    \/ \E data \in AlertCreateInputs : create_alert(data)
    \/ \E a \in AlertIds, data \in AlertUpdateInputs : update_alert(a, data)
    \/ \E a \in AlertIds, u \in UserIds : mark_alert_as_read(a, u)
    \/ \E a \in AlertIds, u \in UserIds : snooze_alert_for_user(a, u)
    \/ process_reminders

Spec == Init /\ [][Next]_vars

\* Targeting: every targeting shape, a changing directory, reminder passes.
NextTargeting ==
    \/ \E data \in TargetingCreateInputs : create_alert(data)
    \/ \E a \in AlertIds, data \in TargetingUpdateInputs : update_alert(a, data)
    \/ \E u \in UserIds : deactivate_user(u)
    \/ process_reminders

SpecTargeting == Init /\ [][NextTargeting]_vars

\* Concurrency: reminder passes of several workers (the scheduler, a direct
\* call), interleaved row by row.
ConcurrentCreateInputs ==
    { AlertCreate("organization", NoneList, NoneList, "in_app", 1) }

NextConcurrent ==
    \/ AdvanceClock
    \/ \E data \in ConcurrentCreateInputs : create_alert(data)
    \/ \E w \in Workers : PassQuery(w)
    \/ \E w \in Workers : PassRemind(w)
    \/ \E w \in Workers : PassFinish(w)

SpecConcurrent == Init /\ [][NextConcurrent]_vars

\* Concurrent mark-read and snooze requests, with users joining teams after an
\* alert was created.
RaceCreateInputs == { AlertCreate("team", << 11 >>, NoneList, "in_app", 1) }

NextPreferenceRace ==
    \/ \E data \in RaceCreateInputs : create_alert(data)
    \/ \E u \in UserIds, t \in TeamIds : add_member_to_team(u, t)
    \/ \E w \in Workers, a \in AlertIds, u \in UserIds,
          op \in {"mark_alert_as_read", "snooze_alert_for_user"} :
          PreferenceSelect(w, op, a, u)
    \/ \E w \in Workers : PreferenceInsert(w)

SpecPreferenceRace == Init /\ [][NextPreferenceRace]_vars

\* Deliveries: reminder passes, retries of failed records and users marking
\* their notifications read.
DeliveryCreateInputs ==
    { AlertCreate("team", << 11 >>, NoneList, "email", 2),
      AlertCreate("team", << 1, 11 >>, NoneList, "in_app", 1) }

\* The max_retries arguments retry_failed_notifications is called with.
RetryArguments == { DefaultMaxRetries, DefaultMaxRetries + 1 }

NextDelivery ==
    \/ AdvanceClock
    \/ \E data \in DeliveryCreateInputs : create_alert(data)
    \/ process_reminders
    \/ \E m \in RetryArguments : retry_failed_notifications(m)
    \/ \E i \in 1 .. MaxDeliveries + 1, u \in UserIds :
          mark_notification_as_read(i, u)

SpecDelivery == Init /\ [][NextDelivery]_vars

\* Lifecycle: alerts with a start and an expiry, archived and updated while
\* reminder passes run.  Team 1 has one member, so an alert has one recipient.
LifecycleAlert == AlertCreate("team", << 1 >>, NoneList, "in_app", 1)

LifecycleCreateInputs ==
    { LifecycleAlert,
      [LifecycleAlert EXCEPT !.expiry_time = Instants[3]],
      [LifecycleAlert EXCEPT !.start_time = Instants[2]],
      [LifecycleAlert EXCEPT !.reminders_enabled = FALSE] }

\* An AlertUpdate body that sets status alone.
AlertStatusUpdate(st) ==
    [fields |-> {"status"}, visibility_type |-> "none",
     target_team_ids |-> NoneList, target_user_ids |-> NoneList, status |-> st]

LifecycleUpdateInputs ==
    { AlertStatusUpdate("active"), AlertStatusUpdate("expired") }

NextLifecycle ==
    \/ AdvanceClock
    \/ \E data \in LifecycleCreateInputs : create_alert(data)
    \/ \E a \in AlertIds, data \in LifecycleUpdateInputs : update_alert(a, data)
    \/ \E a \in AlertIds : archive_alert(a)
    \/ process_reminders

SpecLifecycle == Init /\ [][NextLifecycle]_vars

\* ------------------------------------------------------------------- claims
\* The delivery records a step inserts.
NewDeliveryIds == (Len(deliveries) + 1) .. Len(deliveries')
IntervalSeconds(a) == alerts[a].reminder_interval_hours * SecondsPerHour

\* The recipients of alert a as section 4.1 of the specification states them,
\* on the id lists the requests gave (not on the stored text).
ExpectedRecipients(a) ==
    CASE alerts[a].visibility_type = "organization" ->
             { u \in DOMAIN users : users[u].is_active }
      [] alerts[a].visibility_type = "team" ->
             { u \in DOMAIN users :
                 /\ users[u].is_active
                 /\ req[a].teams # NoneList
                 /\ \E i \in 1 .. Len(req[a].teams) : req[a].teams[i] = users[u].team_id }
      [] OTHER ->
             { u \in DOMAIN users :
                 /\ users[u].is_active
                 /\ req[a].users # NoneList
                 /\ \E i \in 1 .. Len(req[a].users) : req[a].users[i] = u }

\* C1: whatever the interleaving of concurrent reminder passes, two reminder
\* deliveries of one (user, alert) are never created within one reminder
\* interval of each other (in-app reminders, whose send succeeds).
C1_OneReminderPerWindow ==
    \A i, j \in 1 .. Len(deliveries) :
       (/\ i < j
        /\ deliveries[i].is_reminder /\ deliveries[j].is_reminder
        /\ deliveries[i].channel = "in_app" /\ deliveries[j].channel = "in_app"
        /\ deliveries[i].user_id = deliveries[j].user_id
        /\ deliveries[i].alert_id = deliveries[j].alert_id)
       => deliveries[j].scheduled_at - deliveries[i].scheduled_at
             >= IntervalSeconds(deliveries[i].alert_id)

\* The time from which a failed delivery may be attempted again: its
\* next_retry_at, or five minutes after its first failure when no retry has run.
EligibleAt(d) ==
    IF d.next_retry_at # Null THEN d.next_retry_at
    ELSE d.scheduled_at + (RetryBackoffMinutes * SecondsPerMinute)

\* C2: every reminder delivery a pass creates has is_reminder = TRUE and
\* reminder_sequence = the preference's reminder_count before the send plus 1.
C2_ReminderSequenceIsCountPlusOne ==
    [][lastOp'.op = "process_reminders" =>
         \A i \in NewDeliveryIds :
            LET d == deliveries'[i]
            IN  /\ d.is_reminder
                /\ d.reminder_sequence
                      = prefs[<< d.user_id, d.alert_id >>].reminder_count + 1]_vars

\* C3: update_alert leaves the preference row of every user targeted both
\* before and after the update unchanged in all its fields.
C3_RetargetPreservesKeptRows ==
    [][(lastOp'.op = "update_alert" /\ lastOp'.ok) =>
         LET a == lastOp'.alert
         IN  \A u \in UserIds :
                (/\ << u, a >> \in DOMAIN prefs
                 /\ u \in get_target_users_for_alert(alerts[a], users)
                 /\ u \in get_target_users_for_alert(alerts'[a], users'))
                => /\ << u, a >> \in DOMAIN prefs'
                   /\ prefs'[<< u, a >>] = prefs[<< u, a >>]]_vars

\* C4: mark-alert-read on a preference that is already read changes nothing:
\* is_read stays TRUE and read_at stays the time of the first call.
C4_MarkReadIdempotent ==
    [][(lastOp'.op = "mark_alert_as_read" /\ lastOp'.ok) =>
         LET k == << lastOp'.user, lastOp'.alert >>
         IN  (k \in DOMAIN prefs /\ prefs[k].is_read)
             => /\ prefs'[k].is_read
                /\ prefs'[k].read_at = prefs[k].read_at]_vars

\* C5: once a preference row is read it stays read for as long as the row
\* exists (until a retargeting update deletes it), and no reminder pass creates
\* a reminder delivery for its (user, alert).
C5_NoReminderAfterRead ==
    [][\A k \in DOMAIN prefs :
          (/\ prefs[k].is_read
           /\ ~(lastOp'.retargeted /\ lastOp'.alert = k[2]))
          => /\ k \in DOMAIN prefs'
             /\ prefs'[k].is_read
             /\ \A i \in NewDeliveryIds :
                   ~(/\ deliveries'[i].is_reminder
                     /\ deliveries'[i].user_id = k[1]
                     /\ deliveries'[i].alert_id = k[2])]_vars

\* C5 witness: a pass has just run over a read row that would have been due
\* had it been unread.
C5_Witness ==
    /\ lastOp.op = "process_reminders"
    /\ \E k \in DOMAIN prefs :
          /\ prefs[k].is_read
          /\ alert_requires_reminders(alerts[k[2]], now)
          /\ alerts[k[2]].delivery_type = "in_app"
          /\ ~prefs[k].is_snoozed
          /\ prefs[k].last_reminded_at = Null
          /\ \E i \in 1 .. Len(deliveries) :
                deliveries[i].alert_id = k[2] /\ deliveries[i].scheduled_at > prefs[k].read_at

SnoozeInForce(p, t) == p.is_snoozed /\ p.snoozed_until # Null /\ t < p.snoozed_until

\* C6: while now < snoozed_until a snoozed preference is not due and no pass
\* creates a reminder delivery for it; once now > snoozed_until it is due again
\* when it is unread and the reminder interval has elapsed.
C6_SnoozeBlocksUntilEndOfDay ==
    /\ [](\A k \in DOMAIN prefs :
            LET p == prefs[k]
                al == alerts[k[2]]
            IN  /\ SnoozeInForce(p, now)
                   => /\ ~should_receive_reminder(p, al, now).result
                      /\ ~pref_needs_reminder(p, al, now)
                      /\ p.snoozed_until = end_of_day(p.snoozed_at)
                /\ (/\ p.is_snoozed
                    /\ now > p.snoozed_until
                    /\ ~p.is_read
                    /\ (p.last_reminded_at = Null
                        \/ now - p.last_reminded_at >= IntervalSeconds(k[2])))
                   => should_receive_reminder(p, al, now).result
                /\ (/\ p.is_snoozed
                    /\ now > p.snoozed_until
                    /\ ~p.is_read
                    /\ (p.last_reminded_at = Null
                        \/ now - p.last_reminded_at > IntervalSeconds(k[2])))
                   => pref_needs_reminder(p, al, now))
    /\ [][\A k \in DOMAIN prefs :
             SnoozeInForce(prefs[k], now)
             => \A i \in NewDeliveryIds :
                   ~(/\ deliveries'[i].is_reminder
                     /\ deliveries'[i].user_id = k[1]
                     /\ deliveries'[i].alert_id = k[2])]_vars

\* C6 witness: a pass ran while the snooze was in force and reminded another
\* user of the alert but not the snoozed one, and a pass after snoozed_until
\* has reminded the snoozed one.
C6_Witness ==
    \E k \in DOMAIN prefs :
       /\ prefs[k].is_snoozed
       /\ prefs[k].reminder_count = 1
       /\ prefs[k].last_reminded_at > prefs[k].snoozed_until
       /\ \E i \in 1 .. Len(deliveries) :
             /\ deliveries[i].is_reminder
             /\ deliveries[i].alert_id = k[2]
             /\ deliveries[i].user_id # k[1]
             /\ deliveries[i].scheduled_at >= prefs[k].snoozed_at
             /\ deliveries[i].scheduled_at < prefs[k].snoozed_until

\* C7: an unread, not snoozed preference that has been reminded is due exactly
\* when now - last_reminded_at >= the alert's interval, and the property on the
\* row and the selection of the pass both say so.
C7_CadenceAgrees ==
    \A k \in DOMAIN prefs :
       LET p == prefs[k]
           due == now - p.last_reminded_at >= IntervalSeconds(k[2])
       IN  (~p.is_read /\ ~p.is_snoozed /\ p.last_reminded_at # Null)
           => /\ should_receive_reminder(p, alerts[k[2]], now).result = due
              /\ pref_needs_reminder(p, alerts[k[2]], now) = due

\* C8: a team-scoped alert resolves to exactly the active users whose team_id
\* is one of the team ids the alert was given.
C8_TeamTargetingIsExactMembership ==
    \A a \in 1 .. Len(alerts) :
       alerts[a].visibility_type = "team"
       => get_target_users_for_alert(alerts[a], users) = ExpectedRecipients(a)

\* C8 witness: an alert targeting team 1 alone, with an active member of team
\* 11 left out and the member of team 1 in.
C8_Witness ==
    \E a \in 1 .. Len(alerts) :
       /\ alerts[a].visibility_type = "team"
       /\ req[a].teams = << 1 >>
       /\ users[2].is_active /\ users[2].team_id = 11
       /\ 1 \in get_target_users_for_alert(alerts[a], users)
       /\ 2 \notin get_target_users_for_alert(alerts[a], users)

\* C9: right after create_alert succeeds the alert has exactly one default
\* preference row per recipient and no delivery record.
C9_CreateSeedsPreferences ==
    (lastOp.op = "create_alert" /\ lastOp.ok) =>
       LET a == lastOp.alert
       IN  /\ { k[1] : k \in PrefsOfAlert(prefs, a) } = ExpectedRecipients(a)
           /\ \A k \in PrefsOfAlert(prefs, a) :
                 /\ ~prefs[k].is_read /\ prefs[k].read_at = Null
                 /\ ~prefs[k].is_snoozed /\ prefs[k].snoozed_until = Null
                 /\ prefs[k].snooze_count = 0
                 /\ prefs[k].reminder_count = 0
                 /\ prefs[k].last_reminded_at = Null
           /\ \A i \in 1 .. Len(deliveries) : deliveries[i].alert_id # a

\* C9 witness: an organization alert just created with three active users.
C9_Witness ==
    /\ lastOp.op = "create_alert" /\ lastOp.ok
    /\ alerts[lastOp.alert].visibility_type = "organization"
    /\ Cardinality(PrefsOfAlert(prefs, lastOp.alert)) = 3
    /\ \A u \in UserIds : users[u].is_active

\* The user is due as section 4.2 of the specification states it.
DueBySpec(p, a, t) ==
    /\ ~p.is_read
    /\ ~SnoozeInForce(p, t)
    /\ (p.last_reminded_at = Null \/ t - p.last_reminded_at >= IntervalSeconds(a))

\* C10: a pass sets last_reminded_at = now and adds 1 to reminder_count of a
\* row exactly when its reminder was sent with success in that pass; after a
\* failed send, and for a row that was not due, the row is unchanged.
C10_PassUpdatesOnSuccessOnly ==
    [][lastOp'.op = "process_reminders" =>
         \A k \in DOMAIN prefs :
            LET made == { i \in NewDeliveryIds :
                            /\ deliveries'[i].is_reminder
                            /\ deliveries'[i].user_id = k[1]
                            /\ deliveries'[i].alert_id = k[2] }
                sent == \E i \in made : deliveries'[i].status = "delivered"
            IN  /\ k \in DOMAIN prefs'
                /\ sent => prefs'[k] = [prefs[k] EXCEPT
                                          !.last_reminded_at = now,
                                          !.reminder_count = @ + 1]
                /\ ~sent => prefs'[k] = prefs[k]
                /\ ~DueBySpec(prefs[k], k[2], now)
                      => (made = {} /\ prefs'[k] = prefs[k])]_vars

\* C10 witness: a pass has just sent a reminder and updated that row, while a
\* read row of the same alert kept its fields.
C10_Witness ==
    /\ lastOp.op = "process_reminders"
    /\ \E k \in DOMAIN prefs :
          /\ prefs[k].last_reminded_at = now
          /\ prefs[k].reminder_count = 1
          /\ \E j \in DOMAIN prefs :
                /\ j[2] = k[2]
                /\ prefs[j].is_read
                /\ prefs[j].reminder_count = 0

\* C11: a failed delivery is never attempted again before its backoff has
\* elapsed: five minutes after the first failure, next_retry_at after a retry.
C11_NoRetryBeforeBackoff ==
    [][\A i \in 1 .. Len(deliveries) :
          deliveries'[i].retry_count > deliveries[i].retry_count
             => now >= EligibleAt(deliveries[i])]_vars

\* C12: in every state a delivery's retry_count is at most its own max_retries.
C12_RetryCountWithinMaxRetries ==
    \A i \in 1 .. Len(deliveries) :
       deliveries[i].retry_count <= deliveries[i].max_retries

\* C17: mark_notification_as_read with an unknown id, or with the id of another
\* user's record, returns false and changes no delivery record; when it returns
\* true the record is the caller's and no other record changes.
C17_NotificationReadIsOwnersOnly ==
    [][lastOp'.op = "mark_notification_as_read" =>
         LET i == lastOp'.alert
             u == lastOp'.user
             own == i \in 1 .. Len(deliveries) /\ deliveries[i].user_id = u
         IN  /\ Len(deliveries') = Len(deliveries)
             /\ ~own => (~lastOp'.ok /\ deliveries' = deliveries)
             /\ lastOp'.ok =>
                   /\ own
                   /\ \A j \in 1 .. Len(deliveries) :
                         j # i => deliveries'[j] = deliveries[j]]_vars

\* C17 witness: a user was refused on a delivered record of another user, which
\* is still delivered and unread.
C17_Witness ==
    /\ lastOp.op = "mark_notification_as_read" /\ ~lastOp.ok
    /\ lastOp.alert \in 1 .. Len(deliveries)
    /\ deliveries[lastOp.alert].user_id # lastOp.user
    /\ deliveries[lastOp.alert].status = "delivered"
    /\ deliveries[lastOp.alert].read_at = Null

\* C13: once an alert is archived it stays archived, and no delivery is created
\* for it.
C13_ArchivedIsTerminal ==
    [][\A a \in 1 .. Len(alerts) :
          alerts[a].status = "archived" =>
             /\ alerts'[a].status = "archived"
             /\ \A i \in NewDeliveryIds : deliveries'[i].alert_id # a]_vars

\* The alert is one a pass at time t considers, as section 4.2 states it:
\* status = active, reminders enabled and isActive(t).
ConsideredBySpec(alert, t) ==
    /\ alert.status = "active"
    /\ alert.reminders_enabled
    /\ t >= alert.start_time
    /\ (alert.expiry_time = Null \/ t <= alert.expiry_time)

\* C14: a pass creates a reminder for a due preference row exactly when its
\* alert is active, has reminders enabled and is within [start_time,
\* expiry_time], and the pass's selection agrees with Alert.is_active.
C14_PassConsidersActiveAlerts ==
    [][lastOp'.op = "process_reminders" =>
         \A k \in DOMAIN prefs :
            LET alert == alerts[k[2]]
                reminded == \E i \in NewDeliveryIds :
                               /\ deliveries'[i].alert_id = k[2]
                               /\ deliveries'[i].user_id = k[1]
            IN  /\ reminded => ConsideredBySpec(alert, now)
                /\ (ConsideredBySpec(alert, now)
                      /\ pref_needs_reminder(prefs[k], alert, now)) => reminded
                /\ (alert.reminders_enabled /\ is_active(alert, now))
                      = alert_requires_reminders(alert, now)]_vars

\* C15: a user-scoped alert resolves to exactly the users it was given that
\* are active now.
C15_UserTargetingIsActiveTargets ==
    \A a \in 1 .. Len(alerts) :
       alerts[a].visibility_type = "user"
       => get_target_users_for_alert(alerts[a], users)
            = { u \in UserIds : /\ users[u].is_active
                                /\ req[a].users # NoneList
                                /\ u \in Elems(req[a].users) }

\* C15 witness: an alert given users 1 and 12, user 12 deactivated, resolves to
\* user 1 alone.
C15_Witness ==
    \E a \in 1 .. Len(alerts) :
       /\ alerts[a].visibility_type = "user"
       /\ req[a].users = << 1, 12 >>
       /\ ~users[12].is_active
       /\ get_target_users_for_alert(alerts[a], users) = {1}

\* C16: an organization-scoped alert resolves to exactly the active users,
\* whatever its target lists hold.
C16_OrganizationTargetingIsAllActive ==
    \A a \in 1 .. Len(alerts) :
       alerts[a].visibility_type = "organization"
       => get_target_users_for_alert(alerts[a], users)
            = { u \in UserIds : users[u].is_active }

\* C16 witness: an organization alert that stores a target list, one user
\* deactivated, resolves to the two others.
C16_Witness ==
    \E a \in 1 .. Len(alerts) :
       /\ alerts[a].visibility_type = "organization"
       /\ (alerts[a].target_team_ids # NullText \/ alerts[a].target_user_ids # NullText)
       /\ Cardinality({ u \in UserIds : ~users[u].is_active }) = 1
       /\ Cardinality(get_target_users_for_alert(alerts[a], users)) = 2

\* C18: every stored alert has team ids exactly when it is team-scoped and
\* user ids exactly when it is user-scoped, and every id it stores is the id of
\* a team or a user.
C18_TargetingMatchesVisibility ==
    \A a \in 1 .. Len(alerts) :
       /\ (alerts[a].target_team_ids # NullText) = (alerts[a].visibility_type = "team")
       /\ (alerts[a].target_user_ids # NullText) = (alerts[a].visibility_type = "user")
       /\ alerts[a].target_team_ids # NullText
             => Elems(json_loads(alerts[a].target_team_ids)) \subseteq TeamIds
       /\ alerts[a].target_user_ids # NullText
             => Elems(json_loads(alerts[a].target_user_ids)) \subseteq UserIds

\* C19: mark-alert-read and snooze-alert return false, and create or change no
\* preference row, when the alert is unknown or the user is not one of the
\* alert's recipients.
C19_ReadAndSnoozeFailSoft ==
    [][lastOp'.op \in {"mark_alert_as_read", "snooze_alert_for_user"} =>
         LET a == lastOp'.alert
             u == lastOp'.user
             visible == /\ a \in 1 .. Len(alerts)
                        /\ u \in get_target_users_for_alert(alerts[a], users)
         IN  ~visible => (~lastOp'.ok /\ prefs' = prefs)]_vars

\* C20: a mark-read or snooze request of one of the alert's recipients never
\* ends in an error, even when it races with another request for the same
\* (user, alert) on creating the preference row.
C20_PreferenceCreationNeverFails ==
    ~(/\ lastOp.op = "IntegrityError"
      /\ lastOp.user \in get_target_users_for_alert(alerts[lastOp.alert], users))

\* The delivery life cycle of the specification: the pairs (from, to) of
\* permitted status changes.
DeliveryTransitions ==
    { << "pending", "sent" >>, << "sent", "delivered" >>, << "delivered", "read" >>,
      << "pending", "failed" >>, << "failed", "pending" >> }

\* C21: a delivery record moves only Pending -> Sent -> Delivered -> Read,
\* Pending/Sent -> Failed and Failed -> Pending on retry: every change of its
\* status is one of these, and a retried record (its retry_count grows) is
\* set back to Pending before it is sent again.
C21_DeliveryFollowsLifeCycle ==
    [][\A i \in 1..Len(deliveries) :
         LET log == deliveries'[i].status_log
             old == Len(deliveries[i].status_log)
         IN  /\ \A j \in 1..(Len(log) - 1) :
                    log[j] # log[j + 1] => << log[j], log[j + 1] >> \in DeliveryTransitions
             /\ deliveries'[i].retry_count > deliveries[i].retry_count
                    => Len(log) > old /\ log[old + 1] = "pending"]_vars

\* The users a pass at time t has to remind for alert a by the specification:
\* the recipients resolved at t whose preference (a fresh one when none is
\* stored) is due.
RemindedBySpec(a, t) ==
    IF ~ConsideredBySpec(alerts[a], t) THEN {}
    ELSE { u \in get_target_users_for_alert(alerts[a], users) :
             DueBySpec(IF << u, a >> \in DOMAIN prefs THEN prefs[<< u, a >>] ELSE NewPref,
                       a, t) }

\* C22: the users a pass reminds for an alert are exactly the recipients
\* resolved at pass time whose preference is due: a user deactivated after
\* the preference was seeded receives no reminder.
C22_PassResolvesRecipients ==
    [][lastOp'.op = "process_reminders" =>
         \A a \in 1..Len(alerts) :
             { deliveries'[i].user_id :
                 i \in { j \in NewDeliveryIds : deliveries'[j].alert_id = a } }
               = RemindedBySpec(a, now)]_vars

\* ------------------- mark-read and snooze on a stored row, load then commit
MaxSnoozeCalls == 2

\* The snooze calls that have loaded their row and not committed yet
SnoozesInFlight ==
    Cardinality({ w \in Workers :
                    /\ pass[w].pc = "loaded"
                    /\ pass[w].todo[1].op = "snooze_alert_for_user" })

\* mark_alert_as_read / snooze_alert_for_user up to the return of
\* _get_or_create_user_preference when the row exists: the request's session
\* holds the row as the SELECT read it.
PreferenceLoad(w, op, a, u) ==
    /\ pass[w].pc = "idle"
    /\ << u, a >> \in DOMAIN prefs
    /\ op = "snooze_alert_for_user"
          => SnoozesServed(prefs) + SnoozesInFlight < MaxSnoozeCalls
    /\ pass' = [pass EXCEPT ![w] =
                  [pc |-> "loaded",
                   todo |-> << [key |-> << u, a >>, op |-> op,
                                row |-> prefs[<< u, a >>]] >>,
                   fresh |-> FALSE, dirty |-> << >>]]
    /\ lastOp' = Op("get_or_create_user_preference", a, u, TRUE)
    /\ UNCHANGED << clk, users, alerts, prefs, deliveries, req >>

\* The UPDATE a commit flushes for a loaded row: the columns whose value the
\* method changed on the loaded copy are written, the others keep what the
\* table holds.
flush_row(stored, loaded, changed) ==
    [c \in DOMAIN stored |-> IF changed[c] # loaded[c] THEN changed[c] ELSE stored[c]]

\* preference.mark_as_read() / preference.snooze_for_day() on the loaded row,
\* then self.db.commit()
PreferenceCommit(w) ==
    /\ pass[w].pc = "loaded"
    /\ LET e == pass[w].todo[1]
       IN  /\ prefs' = [prefs EXCEPT ![e.key] =
                           flush_row(@, e.row, preference_method(e.op, e.row, now))]
           /\ lastOp' = Op(e.op, e.key[2], e.key[1], TRUE)
    /\ pass' = [pass EXCEPT ![w] = IdlePass]
    /\ UNCHANGED << clk, users, alerts, deliveries, req >>

NextPreferenceUpdate ==
    \/ AdvanceClock
    \/ \E data \in RaceCreateInputs : create_alert(data)
    \/ \E w \in Workers, a \in AlertIds, u \in UserIds,
          op \in {"mark_alert_as_read", "snooze_alert_for_user"} :
          PreferenceLoad(w, op, a, u)
    \/ \E w \in Workers : PreferenceCommit(w)

SpecPreferenceUpdate == Init /\ [][NextPreferenceUpdate]_vars

\* C23: concurrent mark-read and snooze calls on one (user, alert) leave the
\* row as some serial order of them would: every completed snooze call adds
\* one to snooze_count, a completed mark-read leaves is_read true, and a call
\* leaves the fields it does not write as the table held them.
C23_PreferenceCallsSerialize ==
    [][\A k \in DOMAIN prefs :
         /\ (lastOp'.op = "snooze_alert_for_user" /\ << lastOp'.user, lastOp'.alert >> = k)
               => /\ prefs'[k].snooze_count = prefs[k].snooze_count + 1
                  /\ prefs'[k].is_read = prefs[k].is_read
                  /\ prefs'[k].read_at = prefs[k].read_at
         /\ (lastOp'.op = "mark_alert_as_read" /\ << lastOp'.user, lastOp'.alert >> = k)
               => /\ prefs'[k].is_read
                  /\ prefs'[k].snooze_count = prefs[k].snooze_count
                  /\ prefs'[k].is_snoozed = prefs[k].is_snoozed
                  /\ prefs'[k].snoozed_until = prefs[k].snoozed_until]_vars

\* ------------------------------------------------ the batch of Pending sends
\* NotificationService.schedule_notification called on its own: the Pending
\* record is inserted and committed, nothing is sent.
schedule_notification_request(a, u, channel) ==
    /\ a \in 1 .. Len(alerts)
    /\ Len(deliveries) < MaxDeliveries
    /\ deliveries' = Append(deliveries,
                            schedule_notification(a, u, channel, FALSE, Null, now))
    /\ lastOp' = Op("schedule_notification", a, u, TRUE)
    /\ UNCHANGED << clk, users, alerts, prefs, req, pass >>

\* _send_notification on one record; raises says that something inside its
\* try block raised, which the except clause turns into a Failed record.
send_one(d, raises, t) ==
    IF raises
    THEN [ok |-> FALSE,
          d |-> [d EXCEPT !.status = "failed", !.status_log = Append(@, "failed"),
                          !.error_message = "exception"]]
    ELSE send_notification(d, t)

\* The same loop, were it to stop at the first record that fails.
RECURSIVE send_pending_loop_stopping(_, _, _, _)
send_pending_loop_stopping(i, ds, raising, t) ==
    IF i > Len(ds) THEN [deliveries |-> ds, sent |-> 0, failed |-> 0]
    ELSE IF ds[i].status # "pending" THEN send_pending_loop_stopping(i + 1, ds, raising, t)
    ELSE LET r == send_one(ds[i], i \in raising, t)
             ds1 == [ds EXCEPT ![i] = r.d]
         IN  IF ~r.ok THEN [deliveries |-> ds1, sent |-> 0, failed |-> 1]
             ELSE LET rest == send_pending_loop_stopping(i + 1, ds1, raising, t)
                  IN  [rest EXCEPT !.sent = @ + 1]

\* send_pending_notifications lines 119-123 from record i on, in id order
RECURSIVE send_pending_loop(_, _, _, _)
send_pending_loop(i, ds, raising, t) ==
    IF i > Len(ds) THEN [deliveries |-> ds, sent |-> 0, failed |-> 0]
    ELSE IF ds[i].status # "pending" THEN send_pending_loop(i + 1, ds, raising, t)
    ELSE LET r == send_one(ds[i], i \in raising, t)
             rest == send_pending_loop(i + 1, [ds EXCEPT ![i] = r.d], raising, t)
         IN  IF r.ok THEN [rest EXCEPT !.sent = @ + 1]
             ELSE [rest EXCEPT !.failed = @ + 1]

PendingIds(ds) == { i \in 1 .. Len(ds) : ds[i].status = "pending" }

\* send_pending_notifications; raising is the set of records whose send raises
send_pending_notifications(raising) ==
    LET out == send_pending_loop(1, deliveries, raising, now)
    IN  /\ raising \subseteq PendingIds(deliveries)
        /\ deliveries' = out.deliveries
        /\ lastOp' = Op("send_pending_notifications", 0, 0, TRUE)
                        @@ [results |-> [sent |-> out.sent, failed |-> out.failed,
                                         total |-> Cardinality(PendingIds(deliveries))]]
        /\ UNCHANGED << clk, users, alerts, prefs, req, pass >>

NextPending ==
    \/ \E data \in DeliveryCreateInputs : create_alert(data)
    \/ \E a \in AlertIds, u \in UserIds, channel \in {"in_app", "email"} :
          schedule_notification_request(a, u, channel)
    \/ \E raising \in SUBSET (1 .. MaxDeliveries) : send_pending_notifications(raising)

SpecPending == Init /\ [][NextPending]_vars

\* C24: send_pending_notifications attempts every record that is Pending when
\* it starts exactly once, a failure or an exception on one record does not
\* stop the others, none of them is Pending afterwards, the other records are
\* untouched, and the counts returned satisfy sent + failed = total.
C24_PendingBatchIsComplete ==
    [][lastOp'.op = "send_pending_notifications" =>
         LET P == PendingIds(deliveries)
             r == lastOp'.results
         IN  /\ Len(deliveries') = Len(deliveries)
             /\ \A i \in P :
                    \/ /\ deliveries'[i].status = "delivered"
                       /\ deliveries'[i].status_log
                            = deliveries[i].status_log \o << "sent", "delivered" >>
                    \/ /\ deliveries'[i].status = "failed"
                       /\ deliveries'[i].status_log
                            = Append(deliveries[i].status_log, "failed")
             /\ \A i \in (1 .. Len(deliveries)) \ P : deliveries'[i] = deliveries[i]
             /\ r.total = Cardinality(P)
             /\ r.sent + r.failed = r.total
             /\ r.sent = Cardinality({ i \in P : deliveries'[i].status = "delivered" })]_vars

\* A batch of three records in which a record failed and a later one was sent.
C24_Witness ==
    /\ lastOp.op = "send_pending_notifications"
    /\ lastOp.results.total = Len(deliveries)
    /\ lastOp.results.failed >= 1
    /\ lastOp.results.sent >= 1
    /\ \E i, j \in 1 .. Len(deliveries) :
          /\ i < j
          /\ deliveries[i].status = "failed"
          /\ deliveries[j].status = "delivered"

\* ------------------------------------------- a pass in which a statement raises
\* process_reminders lines 153-162 for one row when the user query, or the
\* add / commit / refresh of schedule_notification, raises: no try block
\* encloses them, so the exception leaves process_reminders; the rows still
\* to do are dropped and the writes the session had not committed are lost.
PassRaises(w) ==
    /\ pass[w].pc = "loop"
    /\ Len(pass[w].todo) > 0
    /\ pass' = [pass EXCEPT ![w] = IdlePass]
    /\ lastOp' = Op("Exception", pass[w].todo[1].key[2], pass[w].todo[1].key[1], FALSE)
    /\ UNCHANGED << clk, users, alerts, prefs, deliveries, req >>

NextPassFault ==
    \/ AdvanceClock
    \/ \E data \in ConcurrentCreateInputs : create_alert(data)
    \/ PassQuery(1)
    \/ PassRemind(1)
    \/ PassRaises(1)
    \/ PassFinish(1)

SpecPassFault == Init /\ [][NextPassFault]_vars

\* C25: a failure while handling one (user, alert) of a pass is caught and
\* skipped: the pass ends by returning, not by raising, with every due row
\* handled and with the preference updates of the rows it reminded stored.
C25_PassSurvivesRowFailure ==
    [][(pass[1].pc = "loop" /\ pass'[1].pc = "idle") =>
         /\ lastOp'.op = "process_reminders"
         /\ pass[1].todo = << >>
         /\ \A n \in 1 .. Len(pass[1].dirty) :
                LET e == pass[1].dirty[n]
                IN  (e.kind = "pref" /\ e.key \in DOMAIN prefs')
                       => prefs'[e.key].reminder_count = e.count]_vars

\* ------------------------------------------------------------- the scheduler
\* process_reminders_job: pass[1].pc is the position of its loop, "idle" while
\* it sleeps between two ticks.

\* The loop, were the exception of a tick to leave it.
after_exception_uncaught == "stopped"

\* reminder_scheduler.py lines 30-34: the except clause prints the error and
\* the loop goes on to the sleep and the next tick.
after_exception == "idle"

\* A tick whose pass returns
TickPass ==
    /\ pass[1].pc = "idle"
    /\ process_reminders

\* A tick whose pass fails entirely (the store is unavailable): nothing is
\* written
TickFails ==
    /\ pass[1].pc = "idle"
    /\ pass' = [pass EXCEPT ![1].pc = after_exception]
    /\ lastOp' = Op("Exception", 0, 0, FALSE)
    /\ UNCHANGED << clk, users, alerts, prefs, deliveries, req >>

\* In-app alerts with one recipient each (team 11: user 2, team 1: user 1)
SchedulerCreateInputs ==
    { AlertCreate("team", << 11 >>, NoneList, "in_app", 1),
      AlertCreate("team", << 1 >>, NoneList, "in_app", 2) }

NextScheduler ==
    \/ AdvanceClock
    \/ \E data \in SchedulerCreateInputs : create_alert(data)
    \/ TickPass
    \/ TickFails

\* The loop never ends and a failed pass is a passing fault: ticks whose pass
\* returns keep coming.
SpecScheduler == Init /\ [][NextScheduler]_vars /\ WF_vars(TickPass)

\* The row of (u, a) is owed a reminder: its alert is active with reminders
\* enabled, it is unread, not snoozed, and never reminded or reminded more
\* than a reminder interval ago.
OwedReminder(u, a) ==
    /\ << u, a >> \in DOMAIN prefs
    /\ ConsideredBySpec(alerts[a], now)
    /\ alerts[a].delivery_type = "in_app"
    /\ ~prefs[<< u, a >>].is_read
    /\ ~SnoozeInForce(prefs[<< u, a >>], now)
    /\ \/ prefs[<< u, a >>].last_reminded_at = Null
       \/ now - prefs[<< u, a >>].last_reminded_at > IntervalSeconds(a)

\* The row of (u, a) holds a reminder that was sent within the last interval.
JustReminded(u, a) ==
    /\ << u, a >> \in DOMAIN prefs
    /\ prefs[<< u, a >>].last_reminded_at # Null
    /\ now - prefs[<< u, a >>].last_reminded_at <= IntervalSeconds(a)
    /\ \E i \in 1 .. Len(deliveries) :
          /\ deliveries[i].user_id = u
          /\ deliveries[i].alert_id = a
          /\ deliveries[i].is_reminder
          /\ deliveries[i].status = "delivered"
          /\ deliveries[i].sent_at = prefs[<< u, a >>].last_reminded_at

read_should_receive_reminder(a, u) ==
    /\ << u, a >> \in DOMAIN prefs
    /\ LET r == should_receive_reminder(prefs[<< u, a >>], alerts[a], now)
       IN  /\ prefs' = [prefs EXCEPT ![<< u, a >>] = r.pref]
           /\ lastOp' = Op("should_receive_reminder", a, u, r.result)
    /\ UNCHANGED << clk, users, alerts, deliveries, req, pass >>

NextPredicate ==
    \/ AdvanceClock
    \/ \E data \in RaceCreateInputs : create_alert(data)
    \/ \E a \in AlertIds, u \in UserIds : snooze_alert_for_user(a, u)
    \/ \E a \in AlertIds, u \in UserIds : mark_alert_as_read(a, u)
    \/ process_reminders
    \/ \E a \in AlertIds, u \in UserIds : read_should_receive_reminder(a, u)

SpecPredicate == Init /\ [][NextPredicate]_vars

\* C27: evaluating should_receive_reminder is pure: it changes no field of
\* the preference, is_snoozed and snoozed_until included when the snooze has
\* expired, and a second evaluation at the same time returns the same value.
C27_PredicateIsPure ==
    [][lastOp'.op = "should_receive_reminder" =>
         /\ prefs' = prefs
         /\ should_receive_reminder(prefs'[<< lastOp'.user, lastOp'.alert >>],
                                    alerts[lastOp'.alert], now).result = lastOp'.ok]_vars

\* C28: a delivery's read_at is set only if its status is Read: a Pending,
\* Sent or Failed record never carries a read_at, and a record with read_at
\* set is not one that a retry selects.
C28_ReadAtOnlyWhenRead ==
    \A i \in 1 .. Len(deliveries) :
        deliveries[i].read_at # Null
           => /\ deliveries[i].status = "read"
              /\ \A m \in RetryArguments : ~retry_selects(deliveries[i], m, now)

\* ------------------------------------------------- the alerts listed for a user
\* get_alerts_for_user lines 86-111: the ids of the alerts the query keeps for
\* user u (before the join with the preferences and the paging)
get_alerts_for_user(u, usrs, als) ==
    IF u \notin DOMAIN usrs THEN {}
    ELSE { a \in 1 .. Len(als) :
             /\ als[a].status = "active"
             /\ \/ als[a].visibility_type = "organization"
                \/ /\ usrs[u].team_id # NoTeam
                   /\ als[a].visibility_type = "team"
                   /\ Like(als[a].target_team_ids, str(usrs[u].team_id))
                \/ /\ als[a].visibility_type = "user"
                   /\ Like(als[a].target_user_ids, str(u)) }

\* C29: for every active user u and every alert a with status active, a is
\* listed for u exactly when u is a recipient of a: an alert for team 11 is
\* not listed for a member of team 1, nor one for user 12 for user 1 or 2.
C29_ListingAgreesWithResolution ==
    \A u \in UserIds, a \in 1 .. Len(alerts) :
        (users[u].is_active /\ alerts[a].status = "active")
           => (a \in get_alerts_for_user(u, users, alerts)
                 <=> u \in get_target_users_for_alert(alerts[a], users))

\* The reminder deliveries of (u, a) whose send succeeded
RemindersDelivered(u, a) ==
    { i \in 1 .. Len(deliveries) :
        /\ deliveries[i].user_id = u
        /\ deliveries[i].alert_id = a
        /\ deliveries[i].is_reminder
        /\ deliveries[i].status \in {"delivered", "read"} }

\* C30: for every preference (user, alert), reminder_count is the number of
\* reminder deliveries of that pair whose send succeeded, and last_reminded_at
\* is set exactly when reminder_count > 0; passes and retargeting keep this.
C30_ReminderCountMatchesDeliveries ==
    \A k \in DOMAIN prefs :
        /\ prefs[k].reminder_count = Cardinality(RemindersDelivered(k[1], k[2]))
        /\ (prefs[k].last_reminded_at # Null) <=> (prefs[k].reminder_count > 0)

====
